---- MODULE Spec2Model ----
(***************************************************************************)
(* Model of the statistics helpers of src/roc.py (computeROC,              *)
(* computeCVROC, computeLOOROC, rocStats) and src/imm_cor.py (estTECI).    *)
(*                                                                         *)
(* Floating point values are exact extended rationals <<n, d>> with        *)
(* d >= 0: d > 0 is the finite value n/d in lowest terms, <<1, 0>> is      *)
(* +inf, <<-1, 0>> is -inf and <<0, 0>> is NaN, with the IEEE-754 rules    *)
(* numpy follows for division by zero and for NaN.                         *)
(***************************************************************************)
EXTENDS Integers, Sequences, FiniteSets, TLC

VARIABLES op, pc, df, model, nFolds, obs, pred,
          tmp, cv, i, tpr, acc, counter, results, prob,
          wholeProb, outcome, ids, heap, fits, ret

vars == <<op, pc, df, model, nFolds, obs, pred,
          tmp, cv, i, tpr, acc, counter, results, prob,
          wholeProb, outcome, ids, heap, fits, ret>>

(***************************************************************************)
(* Bounds of the model.                                                    *)
(***************************************************************************)
MaxRows == 4
MaxVec == 5
MaxTERows == 5

(***************************************************************************)
(* Generic helpers on sequences.                                           *)
(***************************************************************************)
Range(s) == {s[k] : k \in DOMAIN s}

SeqsUpTo(S, n) == UNION {[1..m -> S] : m \in 0..n}

RECURSIVE SumSeq(_)
SumSeq(s) == IF s = <<>> THEN 0 ELSE s[1] + SumSeq(Tail(s))

\* The increasing sequence of the elements of a finite set of integers.
RECURSIVE SortedSeq(_)
SortedSeq(S) ==
  IF S = {} THEN <<>>
  ELSE LET m == CHOOSE x \in S : \A y \in S : x <= y
       IN <<m>> \o SortedSeq(S \ {m})

(***************************************************************************)
(* numpy float64 arithmetic on extended rationals.                         *)
(***************************************************************************)
RECURSIVE Gcd(_, _)
Gcd(a, b) == IF b = 0 THEN a ELSE Gcd(b, a % b)

Abs(a) == IF a < 0 THEN -a ELSE a

Sign(a) == IF a < 0 THEN -1 ELSE IF a > 0 THEN 1 ELSE 0

NaN == <<0, 0>>
PInf == <<1, 0>>
NInf == <<-1, 0>>

\* n/d under IEEE rules: x/0 is +-inf, 0/0 is NaN.
Rat(n, d) ==
  IF d = 0 THEN <<Sign(n), 0>>
  ELSE LET g == Gcd(Abs(n), Abs(d))
           s == IF d < 0 THEN -1 ELSE 1
       IN <<(s * n) \div g, (s * d) \div g>>

Zero == Rat(0, 1)
One == Rat(1, 1)

IsNaN(p) == p = NaN

IsInf(p) == p[2] = 0 /\ p[1] # 0

FNeg(p) == <<-p[1], p[2]>>

FAdd(p, q) ==
  IF IsNaN(p) \/ IsNaN(q) THEN NaN
  ELSE IF IsInf(p) /\ IsInf(q) THEN (IF p = q THEN p ELSE NaN)
  ELSE IF IsInf(p) THEN p
  ELSE IF IsInf(q) THEN q
  ELSE LET g == Gcd(p[2], q[2])
       IN Rat(p[1] * (q[2] \div g) + q[1] * (p[2] \div g), (p[2] \div g) * q[2])

FSub(p, q) == FAdd(p, FNeg(q))

FMul(p, q) ==
  IF IsNaN(p) \/ IsNaN(q) THEN NaN
  ELSE IF IsInf(p) \/ IsInf(q) THEN <<Sign(p[1]) * Sign(q[1]), 0>>
  ELSE LET g == Gcd(Abs(p[1]), q[2])
           h == Gcd(Abs(q[1]), p[2])
       IN Rat((p[1] \div g) * (q[1] \div h), (p[2] \div h) * (q[2] \div g))

FDiv(p, q) ==
  IF IsNaN(p) \/ IsNaN(q) THEN NaN
  ELSE IF IsInf(p) /\ IsInf(q) THEN NaN
  ELSE IF IsInf(p) THEN <<p[1] * (IF q[1] < 0 THEN -1 ELSE 1), 0>>
  ELSE IF IsInf(q) THEN Zero
  ELSE IF q[1] = 0 THEN <<Sign(p[1]), 0>>
  ELSE FMul(p, IF q[1] > 0 THEN <<q[2], q[1]>> ELSE <<-q[2], -q[1]>>)

\* Comparisons: every comparison with NaN is false.
FLt(p, q) ==
  IF IsNaN(p) \/ IsNaN(q) THEN FALSE
  ELSE IF IsInf(p) \/ IsInf(q)
       THEN (IF IsInf(p) THEN p[1] ELSE 0) < (IF IsInf(q) THEN q[1] ELSE 0)
  ELSE LET g == Gcd(p[2], q[2])
       IN p[1] * (q[2] \div g) < q[1] * (p[2] \div g)

FEq(p, q) == ~IsNaN(p) /\ ~IsNaN(q) /\ p = q

FLe(p, q) == FLt(p, q) \/ FEq(p, q)

FGt(p, q) == FLt(q, p)

FGe(p, q) == FLe(q, p)

\* The value of an integer count as a float.
FInt(n) == Rat(n, 1)

(***************************************************************************)
(* Library routines the code calls (numpy, scikit-learn, pandas), by what  *)
(* they compute.                                                           *)
(***************************************************************************)

\* np.round on a probability: round half to even, so 0.5 rounds to 0.
Round(p) == IF 2 * p[1] > p[2] THEN 1 ELSE 0

\* sklearn.metrics.accuracy_score(y, np.round(prob), normalize=True).
AccuracyScore(ys, ps) ==
  Rat(Cardinality({k \in DOMAIN ys : Round(ps[k]) = ys[k]}), Len(ys))

\* The distinct finite values of a set, in decreasing order.
RECURSIVE SortDesc(_)
SortDesc(S) ==
  IF S = {} THEN <<>>
  ELSE LET m == CHOOSE x \in S : \A y \in S : FLe(y, x)
       IN <<m>> \o SortDesc(S \ {m})

\* The entries of s at the positions keep (an increasing sequence).
Pick(s, keep) == [k \in DOMAIN keep |-> s[keep[k]]]

\* sklearn.metrics.roc_curve(y_true, y_score) of scikit-learn 0.17-0.19 (the
\* releases that still have sklearn.cross_validation): cumulative counts at
\* each distinct score, collinear interior points dropped, a leading (0, 0)
\* added when the first point has a false positive, and a NaN vector for a
\* rate whose class is absent.  Empty input is rejected (err).

\* The rows labelled label that score at least each threshold.
RocCounts(ys, ss, thr, label) ==
  [k \in DOMAIN thr |->
     Cardinality({j \in DOMAIN ys : ys[j] = label /\ FGe(ss[j], thr[k])})]

\* np.diff(s, 2) at the interior position k.
Diff2(s, k) == s[k + 1] - 2 * s[k] + s[k - 1]

\* drop_intermediate: the corners of the curve and its two ends.
Keep(fps0, tps0) ==
  IF Len(fps0) > 2
  THEN SortedSeq({k \in 1..Len(fps0) : \/ k = 1
                                       \/ k = Len(fps0)
                                       \/ Diff2(fps0, k) # 0
                                       \/ Diff2(tps0, k) # 0})
  ELSE [k \in 1..Len(fps0) |-> k]

NeedsOrigin(fps1) == Len(fps1) = 0 \/ fps1[1] # 0

WithOrigin(cnt, extra) == IF extra THEN <<0>> \o cnt ELSE cnt

Rates(cnt) ==
  IF cnt[Len(cnt)] <= 0 THEN [k \in DOMAIN cnt |-> NaN]
  ELSE [k \in DOMAIN cnt |-> Rat(cnt[k], cnt[Len(cnt)])]

RocFrom(fps1, tps1) ==
  [err |-> FALSE,
   fpr |-> Rates(WithOrigin(fps1, NeedsOrigin(fps1))),
   tpr |-> Rates(WithOrigin(tps1, NeedsOrigin(fps1)))]

RocKept(fps0, tps0, keep) == RocFrom(Pick(fps0, keep), Pick(tps0, keep))

RocThin(fps0, tps0) == RocKept(fps0, tps0, Keep(fps0, tps0))

RocAt(ys, ss, thr) == RocThin(RocCounts(ys, ss, thr, 0), RocCounts(ys, ss, thr, 1))

RocCurve(ys, ss) ==
  IF Len(ys) = 0 THEN [err |-> TRUE, fpr |-> <<>>, tpr |-> <<>>]
  ELSE RocAt(ys, ss, SortDesc(Range(ss)))

\* np.linspace(0, 1, 100).
GridPoints == 100

Linspace == [k \in 1..GridPoints |-> Rat(k - 1, GridPoints - 1)]

\* numpy's binary_search_with_guess for at most four points (its linear
\* scan): -1 below the first point, Len(xp) above the last, else the last
\* index whose successor the key does not reach; 0-based as in numpy.
RECURSIVE LinearScan(_, _, _)
LinearScan(key, xp, k) ==
  IF k < Len(xp) /\ FGe(key, xp[k + 1]) THEN LinearScan(key, xp, k + 1) ELSE k - 1

SearchWithGuess(key, xp) ==
  IF FGt(key, xp[Len(xp)]) THEN Len(xp)
  ELSE IF FLt(key, xp[1]) THEN -1
  ELSE LinearScan(key, xp, 1)

\* np.interp(x, xp, fp) at one point x, j being the segment found for it.
InterpSeg(x, xp, fp, j) ==
  IF j = -1 THEN fp[1]
  ELSE IF j >= Len(xp) - 1 THEN fp[Len(xp)]
  ELSE FAdd(FMul(FDiv(FSub(fp[j + 2], fp[j + 1]), FSub(xp[j + 2], xp[j + 1])),
                 FSub(x, xp[j + 1])),
            fp[j + 1])

InterpAt(x, xp, fp) == InterpSeg(x, xp, fp, SearchWithGuess(x, xp))

Interp(x, xp, fp) == [k \in DOMAIN x |-> InterpAt(x[k], xp, fp)]

\* np.trapz(y, x).
RECURSIVE Trapz(_, _, _)
Trapz(x, y, k) ==
  IF k >= Len(x) THEN Zero
  ELSE FAdd(FMul(FSub(x[k + 1], x[k]), FDiv(FAdd(y[k], y[k + 1]), Rat(2, 1))),
            Trapz(x, y, k + 1))

\* sklearn.metrics.auc(x, y): needs two points and a monotone x.
Steps(x) == [k \in 1..(Len(x) - 1) |-> FSub(x[k + 1], x[k])]

Falls(dx) == \E k \in DOMAIN dx : FLt(dx[k], Zero)

NeverRises(dx) == \A k \in DOMAIN dx : FLe(dx[k], Zero)

AucRaises(x) == Len(x) < 2 \/ (Falls(Steps(x)) /\ ~NeverRises(Steps(x)))

Auc(x, y) ==
  IF Len(x) >= 2 /\ Falls(Steps(x)) THEN FNeg(Trapz(x, y, 1)) ELSE Trapz(x, y, 1)

\* The end points left as computed.
ClampAsIs(a) == a

\* a[0], a[-1] = 0, 1
Clamp(a) == [k \in DOMAIN a |-> IF k = Len(a) THEN One ELSE IF k = 1 THEN Zero ELSE a[k]]

\* The sum of column entries cols[c][k] over the columns c in S.
RECURSIVE SumAt(_, _, _)
SumAt(cols, k, S) ==
  IF S = {} THEN Zero
  ELSE FAdd(cols[CHOOSE c \in S : TRUE][k], SumAt(cols, k, S \ {CHOOSE c \in S : TRUE}))

MeanOver(cols, k, live) == FDiv(SumAt(cols, k, live), FInt(Cardinality(live)))

\* np.nanmean(tpr, axis=1) over the columns cols: the mean of the entries
\* that are not NaN, NaN where every entry is.
NanMean(cols) ==
  [k \in 1..GridPoints |-> MeanOver(cols, k, {c \in DOMAIN cols : ~IsNaN(cols[c][k])})]

\* pd.Series(values, index=index): one [id, v] entry per position; pandas
\* refuses (ValueError) values and index of different lengths.
SeriesRaises(values, index) == Len(values) # Len(index)

Series(values, index) == [k \in DOMAIN index |-> [id |-> index[k], v |-> values[k]]]

\* pd.concat(ss)
RECURSIVE Concat(_)
Concat(ss) == IF ss = <<>> THEN <<>> ELSE Head(ss) \o Concat(Tail(ss))

\* The sum of the values s[k].v over the positions k in S.
RECURSIVE SumValues(_, _)
SumValues(s, S) ==
  IF S = {} THEN Zero
  ELSE FAdd(s[CHOOSE k \in S : TRUE].v, SumValues(s, S \ {CHOOSE k \in S : TRUE}))

GroupOf(s, key) == {k \in DOMAIN s : s[k].id = key}

MeanOfGroup(s, at) == FDiv(SumValues(s, at), FInt(Cardinality(at)))

GroupMeans(s, keys) ==
  [k \in DOMAIN keys |-> [id |-> keys[k], v |-> MeanOfGroup(s, GroupOf(s, keys[k]))]]

\* s.groupby(level=0).agg(np.mean): one entry per distinct identifier, in
\* increasing identifier order, holding the mean of that identifier's values.
GroupMean(s) == GroupMeans(s, SortedSeq({s[k].id : k \in DOMAIN s}))

(***************************************************************************)
(* Data frames.  A frame is a sequence of rows [id, y, x, ok]: the row     *)
(* identifier (the index label), the 0/1 outcome, the 0/1 predictor and    *)
(* whether the row has no missing value.                                   *)
(***************************************************************************)
Row(k, y, x, ok) == [id |-> k, y |-> y, x |-> x, ok |-> ok]

\* df[[outcomeVar] + predVars].dropna()
DropNA(frame) == SelectSeq(frame, LAMBDA r : r.ok)

\* frame.iloc[ind]
ILoc(frame, ind) == [k \in DOMAIN ind |-> frame[ind[k]]]

Index(frame) == [k \in DOMAIN frame |-> frame[k].id]

Outcome(frame) == [k \in DOMAIN frame |-> frame[k].y]

\* ys.astype(float), and back to labels.
Floats(ys) == [k \in DOMAIN ys |-> FInt(ys[k])]

Labels(fs) == [k \in DOMAIN fs |-> IF fs[k] = One THEN 1 ELSE 0]

(***************************************************************************)
(* The classifier.  A fit either returns, raises PerfectSeparationError    *)
(* ("ps") or raises another error ("err"), and a fit on no rows can only   *)
(* raise another error; a fit that returns predicts,                       *)
(* for a row with predictor x, the share of positive training rows among   *)
(* those with that x (1/2 when there is none).  The classifier object is   *)
(* heap[1]; fit returns it (self, as smLogisticRegression.fit does) or a   *)
(* new results object.  An object has the attribute predict_proba (proba), *)
(* and that attribute is the native two-column method (native) or the      *)
(* one-dimensional predict patched in by computeROC.                       *)
(***************************************************************************)
FitOutcomes(train) == IF Len(train) = 0 THEN {"err"} ELSE {"ok", "ps", "err"}

Params(train) ==
  [j \in 1..2 |->
     LET same == {k \in DOMAIN train : train[k].x = j - 1}
     IN IF same = {} THEN Rat(1, 2)
        ELSE Rat(Cardinality({k \in same : train[k].y = 1}), Cardinality(same))]

NewObject(m) == [params |-> <<>>, trained |-> <<>>, proba |-> m.proba, native |-> m.proba]

Fitted(o, train) == [o EXCEPT !.params = Params(train), !.trained = Index(train)]

\* model.fit(X, y) when it returns: [handle, heap].
Fit(m, train, h) ==
  IF m.self
  THEN [handle |-> 1, heap |-> [h EXCEPT ![1] = Fitted(h[1], train)]]
  ELSE [handle |-> Len(h) + 1, heap |-> Append(h, Fitted(NewObject(m), train))]

\* res.predict(X): one value per row.
Predict(h, handle, rows) == [k \in DOMAIN rows |-> h[handle].params[rows[k].x + 1]]

\* res.predict_proba(X)[:, 1] raises IndexError when predict_proba is the
\* patched one-dimensional predict.
ProbaRaises(h, handle) == ~h[handle].native

\* if not hasattr(res, 'predict_proba'): res.predict_proba = res.predict
Patch(h, handle) ==
  IF h[handle].proba THEN h ELSE [h EXCEPT ![handle].proba = TRUE]

None == 0

\* The record of one model.fit call: the rows it was given, whether they are
\* a fold's training partition or the whole filtered dataset, and how the
\* call ended.
FitCall(kind, train, fo) == [kind |-> kind, train |-> Index(train), outcome |-> fo]

(***************************************************************************)
(* computeROC(df, model, outcomeVar, predVars), with fo the outcome of its *)
(* model.fit call and h the heap it runs on.                               *)
(***************************************************************************)
ZerosFive == [k \in 1..5 |-> Zero]

OnesFive == [k \in 1..5 |-> One]

ROCResult(raised, fpr_, tpr_, auc_, acc_, res, prob_, h) ==
  [raised |-> raised, fpr |-> fpr_, tpr |-> tpr_, auc |-> auc_, acc |-> acc_,
   results |-> res, prob |-> prob_, heap |-> h]

ROCRaise(h) == ROCResult(TRUE, <<>>, <<>>, NaN, NaN, None, <<>>, h)

\* Line 77: the outcome column of the frame computeROC was given.
SeparatedProb(frame) == Floats(Outcome(frame))

\* The except branch: lines 71-79, then the return of line 81.
PerfectSeparation(frame, t, h) ==
  IF SeriesRaises(SeparatedProb(frame), Index(t)) THEN ROCRaise(h)
  ELSE ROCResult(FALSE, ZerosFive, Clamp(OnesFive), One, One, None,
                 Series(SeparatedProb(frame), Index(t)), h)

\* Lines 66-70 and 80-81: the curve rc and accuracy acc_ of the fit res.
Scored(t, res, h, prob_, rc, acc_) ==
  IF rc.err \/ AucRaises(rc.fpr) \/ ~FLe(acc_, One) THEN ROCRaise(h)
  ELSE ROCResult(FALSE, rc.fpr, Clamp(rc.tpr), Auc(rc.fpr, rc.tpr), acc_, res,
                 Series(prob_, Index(t)), h)

Score(t, res, h, prob_) ==
  Scored(t, res, h, prob_, RocCurve(Outcome(t), prob_), AccuracyScore(Outcome(t), prob_))

\* Lines 61-65: the probabilities of the fit, by predict_proba where the
\* result has it and else by predict, which is then patched in.
Probabilities(t, fit) ==
  IF fit.heap[fit.handle].proba /\ ProbaRaises(fit.heap, fit.handle)
  THEN ROCRaise(fit.heap)
  ELSE Score(t, fit.handle, Patch(fit.heap, fit.handle), Predict(fit.heap, fit.handle, t))

\* The try branch: lines 60-70, then lines 80-81.
FitAndScore(m, t, h) == Probabilities(t, Fit(m, t, h))

ComputeROC(m, frame, fo, h) ==
  IF fo = "err" THEN ROCRaise(h)
  ELSE IF fo = "ps" THEN PerfectSeparation(frame, DropNA(frame), h)
  ELSE FitAndScore(m, DropNA(frame), h)

(***************************************************************************)
(* Inputs.                                                                 *)
(***************************************************************************)
MaxFolds == 3

\* The frames the model runs on: up to MaxRows rows whose (y, x) values walk
\* through the four combinations from some offset, at most one row of them
\* with a missing value; identifiers are the row positions in df.
Cycle == <<<<0, 0>>, <<1, 1>>, <<1, 0>>, <<0, 1>>>>

Frame(n, o, miss) ==
  [k \in 1..n |-> Row(k, Cycle[((k - 1 + o) % 4) + 1][1],
                         Cycle[((k - 1 + o) % 4) + 1][2], k # miss)]

Frames == {Frame(n, o, miss) : n \in 0..MaxRows, o \in 0..3, miss \in 0..MaxRows}

Classifiers == [self : BOOLEAN, proba : BOOLEAN]

\* sklearn.cross_validation.KFold(n, n_folds, shuffle=True, random_state):
\* the shuffled positions idxs cut into n_folds consecutive test folds, the
\* first n % n_folds one longer; each fold is [train, test], both increasing.
KFoldRaises(n, k) == k <= 1 \/ k > n

\* Folds of equal size, the n % k rows left over in none.
FoldSizeEven(n, k, j) == n \div k

FoldSize(n, k, j) == (n \div k) + (IF j <= n % k THEN 1 ELSE 0)

RECURSIVE FoldStart(_, _, _)
FoldStart(n, k, j) == IF j = 1 THEN 0 ELSE FoldStart(n, k, j - 1) + FoldSize(n, k, j - 1)

TestSet(n, k, idxs, j) ==
  {idxs[q] : q \in (FoldStart(n, k, j) + 1)..(FoldStart(n, k, j) + FoldSize(n, k, j))}

Split(n, test) == [train |-> SortedSeq((1..n) \ test), test |-> SortedSeq(test)]

KFold(n, k, idxs) == [j \in 1..k |-> Split(n, TestSet(n, k, idxs, j))]

\* The shuffles the model draws from: the rotations of 1..n.
Perms(n) == {[q \in 1..n |-> ((q - 1 + s) % n) + 1] : s \in 0..(n - 1)}

\* sklearn.cross_validation.LeaveOneOut(n): fold j tests position j alone.
LeaveOneOut(n) == [j \in 1..n |-> Split(n, {j})]

NoRet == [success |-> FALSE]

InitLocals ==
  /\ pc = "start"
  /\ tmp = <<>>
  /\ cv = <<>>
  /\ i = 0
  /\ tpr = <<>>
  /\ acc = Zero
  /\ counter = 0
  /\ results = <<>>
  /\ prob = <<>>
  /\ wholeProb = <<>>
  /\ outcome = <<>>
  /\ ids = <<>>
  /\ fits = <<>>
  /\ ret = NoRet

InitModel ==
  /\ df \in Frames
  /\ model \in Classifiers
  /\ heap = <<NewObject(model)>>
  /\ obs = <<>>
  /\ pred = <<>>

InitROC == op = "computeROC" /\ nFolds = 0 /\ InitModel /\ InitLocals

InitCV == op = "computeCVROC" /\ nFolds \in 1..MaxFolds /\ InitModel /\ InitLocals

InitLOO == op = "computeLOOROC" /\ nFolds = 0 /\ InitModel /\ InitLocals

(***************************************************************************)
(* computeROC as an operation of its own.                                  *)
(***************************************************************************)
ROCCall ==
  /\ op = "computeROC" /\ pc = "start"
  /\ tmp' = DropNA(df)
  /\ \E fo \in FitOutcomes(DropNA(df)) :
       \E r \in {ComputeROC(model, df, fo, heap)} :
          /\ fits' = Append(fits, FitCall("whole", DropNA(df), fo))
          /\ pc' = IF r.raised THEN "raised" ELSE "done"
          /\ ret' = r
          /\ heap' = r.heap
  /\ UNCHANGED <<op, df, model, nFolds, obs, pred, cv, i, tpr, acc, counter,
                 results, prob, wholeProb, outcome, ids>>

(***************************************************************************)
(* computeCVROC.                                                           *)
(***************************************************************************)
Result(fpr_, tpr_, auc_, acc_, res, probS, success) ==
  [fpr |-> fpr_, tpr |-> tpr_, auc |-> auc_, acc |-> acc_, results |-> res,
   prob |-> probS, success |-> success]

NaNColumn == [k \in 1..GridPoints |-> NaN]

\* Lines 116-128: filter, build the folds and the empty accumulators.
CVStart ==
  /\ op = "computeCVROC" /\ pc = "start"
  /\ tmp' = DropNA(df)
  /\ IF KFoldRaises(Len(tmp'), nFolds)
     THEN pc' = "raised" /\ UNCHANGED <<cv, tpr>>
     ELSE /\ \E idxs \in Perms(Len(tmp')) : cv' = KFold(Len(tmp'), nFolds, idxs)
          /\ tpr' = [j \in 1..nFolds |-> NaNColumn]
          /\ pc' = "fold"
  /\ UNCHANGED <<op, df, model, nFolds, obs, pred, i, acc, counter, results, prob,
                 wholeProb, outcome, ids, heap, fits, ret>>

\* Lines 138-141 and 143: the fitted model scored on the held-out rows.
TestScored(testDf, testProb, rc) ==
  [raised |-> rc.err,
   column |-> IF rc.err THEN NaNColumn ELSE Interp(Linspace, rc.fpr, rc.tpr),
   acc |-> AccuracyScore(Outcome(testDf), testProb),
   prob |-> Series(testProb, Index(testDf))]

TestProbs(testDf, testProb) ==
  TestScored(testDf, testProb, RocCurve(Outcome(testDf), testProb))

TestScore(h, res, testDf) ==
  IF ProbaRaises(h, res)
  THEN [raised |-> TRUE, column |-> NaNColumn, acc |-> NaN, prob |-> <<>>]
  ELSE TestProbs(testDf, Predict(h, res, testDf))

\* Lines 129-143: one pass of the fold loop, r being what computeROC
\* returned for the training rows.
CVFoldBody(r, testDf) ==
  /\ heap' = r.heap
  /\ IF r.raised
     THEN pc' = "raised" /\ UNCHANGED <<i, tpr, acc, counter, results, prob>>
     ELSE IF r.results = None
     THEN i' = i + 1 /\ UNCHANGED <<pc, tpr, acc, counter, results, prob>>
     ELSE \E t \in {TestScore(r.heap, r.results, testDf)} :
            IF t.raised
            THEN /\ pc' = "raised"
                 /\ counter' = counter + 1
                 /\ UNCHANGED <<i, tpr, acc, results, prob>>
            ELSE /\ counter' = counter + 1
                 /\ tpr' = [tpr EXCEPT ![i + 1] = t.column]
                 /\ acc' = FAdd(acc, t.acc)
                 /\ results' = Append(results, r.results)
                 /\ prob' = Append(prob, t.prob)
                 /\ i' = i + 1
                 /\ pc' = pc

CVFold ==
  /\ op = "computeCVROC" /\ pc = "fold" /\ i < nFolds
  /\ \E trainDf \in {ILoc(tmp, cv[i + 1].train)} :
       \E fo \in FitOutcomes(trainDf) :
          /\ fits' = Append(fits, FitCall("fold", trainDf, fo))
          /\ \E r \in {ComputeROC(model, trainDf, fo, heap)} :
               CVFoldBody(r, ILoc(tmp, cv[i + 1].test))
  /\ UNCHANGED <<op, df, model, nFolds, obs, pred, tmp, cv, wholeProb, outcome, ids, ret>>

\* Lines 146-151: the aggregate of the folds.
Aggregated(meanTPR, accSum, n, res, series) ==
  Result(Linspace, meanTPR, Auc(Linspace, meanTPR), FDiv(accSum, FInt(n)), res,
         GroupMean(Concat(series)), TRUE)

Aggregate(cols, accSum, n, res, series) ==
  Aggregated(Clamp(NanMean(cols)), accSum, n, res, series)

\* Line 145: if counter == nFolds
AllFolds(cnt, n) == cnt = n

\* Lines 145-154 and 176-177: every fold was fitted.
CVSuccess ==
  /\ op = "computeCVROC" /\ pc = "fold" /\ i = nFolds
  /\ AllFolds(counter, nFolds)
  /\ \E a \in {Aggregate(tpr, acc, counter, results, prob)} :
       IF Len(a.prob) # Len(tmp) \/ ~FLe(a.acc, One)
       THEN pc' = "raised" /\ ret' = ret
       ELSE pc' = "done" /\ ret' = a
  /\ UNCHANGED <<op, df, model, nFolds, obs, pred, tmp, cv, i, tpr, acc, counter,
                 results, prob, wholeProb, outcome, ids, heap, fits>>

\* The degraded result flagged as a completed cross-validation.
RefitFlagged(r) ==
  Result(Linspace, Clamp(Interp(Linspace, r.fpr, r.tpr)), r.auc, r.acc, <<r.results>>,
         r.prob, TRUE)

\* The degraded result keeping the handles of the folds that were fitted.
RefitKeepingFolds(r) ==
  Result(Linspace, Clamp(Interp(Linspace, r.fpr, r.tpr)), r.auc, r.acc,
         Append(results, r.results), r.prob, FALSE)

\* Lines 160-167: the result built from the fit r on all of tmp.
Refit(r) ==
  Result(Linspace, Clamp(Interp(Linspace, r.fpr, r.tpr)), r.auc, r.acc, <<r.results>>,
         r.prob, FALSE)

\* Lines 155-167 and 176-177: a fold was not fitted; refit on all of tmp.
CVDegraded ==
  /\ op = "computeCVROC" /\ pc = "fold" /\ i = nFolds
  /\ ~AllFolds(counter, nFolds)
  /\ \E fo \in FitOutcomes(tmp) :
       \E r \in {ComputeROC(model, tmp, fo, heap)} :
          /\ fits' = Append(fits, FitCall("whole", tmp, fo))
          /\ heap' = r.heap
          /\ IF r.raised \/ ~FLe(r.acc, One)
             THEN pc' = "raised" /\ UNCHANGED <<results, ret>>
             ELSE /\ pc' = "done"
                  /\ results' = <<r.results>>
                  /\ ret' = Refit(r)
  /\ UNCHANGED <<op, df, model, nFolds, obs, pred, tmp, cv, i, tpr, acc, counter,
                 prob, wholeProb, outcome, ids>>

(***************************************************************************)
(* computeLOOROC.                                                          *)
(***************************************************************************)
\* Lines 231-245: the result when the fit on all of tmp is perfectly
\* separated.
ShortCircuited(t, outcome_, rc) ==
  IF rc.err \/ SeriesRaises(outcome_, Index(t))
  THEN [raised |-> TRUE, ret |-> NoRet]
  ELSE [raised |-> FALSE,
        ret |-> Result(Linspace, Clamp(Interp(Linspace, rc.fpr, rc.tpr)), One, One,
                       [k \in DOMAIN t |-> None], Series(outcome_, Index(t)), FALSE)]

ShortCircuit(t) ==
  ShortCircuited(t, Floats(Outcome(t)), RocCurve(Outcome(t), Floats(Outcome(t))))

\* Lines 225-228: the fit on all of tmp returned; its probabilities.
WholeFitted(t, handle, h2) ==
  [raised |-> ProbaRaises(h2, handle), heap |-> h2, wholeProb |-> Predict(h2, handle, t)]

WholeFit(m, t, h) == WholeFitted(t, Fit(m, t, h).handle, Patch(Fit(m, t, h).heap, Fit(m, t, h).handle))

LOOEnter(w) ==
  /\ heap' = w.heap
  /\ IF w.raised
     THEN pc' = "raised" /\ UNCHANGED <<wholeProb, ret, results>>
     ELSE pc' = "fold" /\ wholeProb' = w.wholeProb /\ UNCHANGED <<ret, results>>

\* The short-circuit without its return: the fold loop is entered.
LOOShortFallsThrough(sc) ==
  /\ pc' = "fold"
  /\ wholeProb' = [k \in DOMAIN tmp' |-> One]
  /\ UNCHANGED <<ret, results, heap>>

LOOShort(sc) ==
  /\ IF sc.raised
     THEN pc' = "raised" /\ UNCHANGED <<ret, results>>
     ELSE pc' = "done" /\ ret' = sc.ret /\ results' = sc.ret.results
  /\ UNCHANGED <<heap, wholeProb>>

\* Lines 210-245: filter, set up, fit all of tmp.
LOOStart ==
  /\ op = "computeLOOROC" /\ pc = "start"
  /\ \E t \in {DropNA(df)} :
       /\ tmp' = t
       /\ cv' = LeaveOneOut(Len(t))
       /\ nFolds' = Len(t)
       /\ prob' = [k \in 1..Len(t) |-> NaN]
       /\ outcome' = [k \in 1..Len(t) |-> NaN]
       /\ \E fo \in FitOutcomes(t) :
            /\ fits' = Append(fits, FitCall("whole", t, fo))
            /\ IF fo = "err" THEN pc' = "raised" /\ UNCHANGED <<heap, wholeProb, ret, results>>
               ELSE IF fo = "ps" THEN LOOShort(ShortCircuit(t))
               ELSE LOOEnter(WholeFit(model, t, heap))
  /\ UNCHANGED <<op, df, model, obs, pred, i, tpr, acc, counter, ids>>

\* Lines 253-257: a fold's fit returned.
FoldFitted(testDf, handle, h2) ==
  [raised |-> ProbaRaises(h2, handle), heap |-> h2, res |-> handle,
   prob |-> Predict(h2, handle, testDf)[1]]

FoldFit(m, trainDf, testDf, h) ==
  FoldFitted(testDf, Fit(m, trainDf, h).handle,
             Patch(Fit(m, trainDf, h).heap, Fit(m, trainDf, h).handle))

LOOFitted(f) ==
  /\ heap' = f.heap
  /\ results' = Append(results, f.res)
  /\ IF f.raised
     THEN pc' = "raised" /\ UNCHANGED <<prob, i>>
     ELSE prob' = [prob EXCEPT ![i + 1] = f.prob] /\ i' = i + 1 /\ pc' = pc

\* Lines 247-261: one pass of the fold loop.
LOOFold ==
  /\ op = "computeLOOROC" /\ pc = "fold" /\ i < nFolds
  /\ \E trainDf \in {ILoc(tmp, cv[i + 1].train)}, testDf \in {ILoc(tmp, cv[i + 1].test)} :
       /\ outcome' = [outcome EXCEPT ![i + 1] = FInt(testDf[1].y)]
       /\ ids' = Append(ids, tmp[cv[i + 1].test[1]].id)
       /\ \E fo \in FitOutcomes(trainDf) :
            /\ fits' = Append(fits, FitCall("fold", trainDf, fo))
            /\ IF fo = "err"
               THEN pc' = "raised" /\ UNCHANGED <<heap, results, prob, i>>
               ELSE IF fo = "ps"
               THEN /\ prob' = [prob EXCEPT ![i + 1] = wholeProb[i + 1]]
                    /\ results' = Append(results, None)
                    /\ i' = i + 1
                    /\ UNCHANGED <<pc, heap>>
               ELSE LOOFitted(FoldFit(model, trainDf, testDf, heap))
  /\ UNCHANGED <<op, df, model, nFolds, obs, pred, tmp, cv, tpr, acc, counter,
                 wholeProb, ret>>

\* The result flagged as completed only when no fold borrowed.
LOOScoredStrict(ys, prob_, ids_, res, rc) ==
  IF rc.err \/ AucRaises(rc.fpr) \/ SeriesRaises(prob_, ids_)
  THEN [raised |-> TRUE, ret |-> NoRet]
  ELSE [raised |-> FALSE,
        ret |-> Result(Linspace, Clamp(Interp(Linspace, rc.fpr, rc.tpr)),
                       Auc(rc.fpr, rc.tpr), AccuracyScore(ys, prob_), res,
                       Series(prob_, ids_), \A k \in DOMAIN res : res[k] # None)]

\* Lines 263-273: the curve of the out-of-fold probabilities.
LOOScored(ys, prob_, ids_, res, rc) ==
  IF rc.err \/ AucRaises(rc.fpr) \/ SeriesRaises(prob_, ids_)
  THEN [raised |-> TRUE, ret |-> NoRet]
  ELSE [raised |-> FALSE,
        ret |-> Result(Linspace, Clamp(Interp(Linspace, rc.fpr, rc.tpr)),
                       Auc(rc.fpr, rc.tpr), AccuracyScore(ys, prob_), res,
                       Series(prob_, ids_), TRUE)]

LOOResult(outcome_, prob_, ids_, res) ==
  LOOScored(Labels(outcome_), prob_, ids_, res, RocCurve(Labels(outcome_), prob_))

LOOFinish ==
  /\ op = "computeLOOROC" /\ pc = "fold" /\ i = nFolds
  /\ \E f \in {LOOResult(outcome, prob, ids, results)} :
       IF f.raised \/ Len(ids) # Len(tmp)
       THEN pc' = "raised" /\ ret' = ret
       ELSE pc' = "done" /\ ret' = f.ret
  /\ UNCHANGED <<op, df, model, nFolds, obs, pred, tmp, cv, i, tpr, acc, counter,
                 results, prob, wholeProb, outcome, ids, heap, fits>>

NextLOO == LOOStart \/ LOOFold \/ LOOFinish

SpecLOO == InitLOO /\ [][NextLOO]_vars

NextCV == CVStart \/ CVFold \/ CVSuccess \/ CVDegraded

SpecCV == InitCV /\ [][NextCV]_vars

NextROC == ROCCall

SpecROC == InitROC /\ [][NextROC]_vars

\* The two resampling routines together.
InitResampled == InitCV \/ InitLOO

NextResampled == CVStart \/ CVFold \/ CVSuccess \/ CVDegraded \/ LOOStart \/ LOOFold \/ LOOFinish

SpecResampled == InitResampled /\ [][NextResampled]_vars

(***************************************************************************)
(* rocStats(obs, pred).  The counts are numpy integers, so a division by   *)
(* zero yields inf or NaN (with a warning) and raises nothing.             *)
(***************************************************************************)
\* The floor division Python 2 gives two integers.
DivFloor(n, d) == IF d = 0 THEN NaN ELSE FInt(n \div d)

\* numpy true division of two counts.
Div(n, d) == FDiv(FInt(n), FInt(d))

\* x.astype(bool)
AsBool(x) == x # 0

\* Lines 539-542.
Table(o, p) ==
  [a |-> Cardinality({k \in DOMAIN o : AsBool(o[k]) /\ AsBool(p[k])}),
   b |-> Cardinality({k \in DOMAIN o : AsBool(o[k]) /\ ~AsBool(p[k])}),
   c |-> Cardinality({k \in DOMAIN o : ~AsBool(o[k]) /\ AsBool(p[k])}),
   d |-> Cardinality({k \in DOMAIN o : ~AsBool(o[k]) /\ ~AsBool(p[k])})]

\* Lines 538 and 544-551.
Stats(t, n) ==
  [sens |-> Div(t.a, t.a + t.b),
   spec |-> Div(t.d, t.c + t.d),
   ppv |-> Div(t.a, t.a + t.c),
   npv |-> Div(t.d, t.b + t.d),
   nnt |-> FDiv(One, FSub(Div(t.a, t.a + t.c), Div(t.b, t.b + t.d))),
   acc |-> Div(t.a + t.d, n),
   rr |-> FDiv(Div(t.a, t.a + t.c), Div(t.b, t.b + t.d)),
   OR |-> FDiv(Div(t.a, t.b), Div(t.c, t.d))]

\* Lines 536-558; the assert of line 536 raises on vectors of unequal length.
RocStats ==
  /\ op = "rocStats" /\ pc = "start"
  /\ IF Len(obs) # Len(pred)
     THEN pc' = "raised" /\ ret' = ret
     ELSE pc' = "done" /\ ret' = Stats(Table(obs, pred), Len(obs))
  /\ UNCHANGED <<op, df, model, nFolds, obs, pred, tmp, cv, i, tpr, acc, counter,
                 results, prob, wholeProb, outcome, ids, heap, fits>>

InitStats ==
  /\ op = "rocStats"
  /\ obs \in SeqsUpTo(0..1, MaxVec)
  /\ pred \in SeqsUpTo(0..1, MaxVec)
  /\ df = <<>> /\ model = [self |-> FALSE, proba |-> FALSE] /\ heap = <<>>
  /\ nFolds = 0
  /\ InitLocals

NextStats == RocStats

SpecStats == InitStats /\ [][NextStats]_vars

(***************************************************************************)
(* estTECI(df, treatment_col, event_col).  A row is [treated, disease2],   *)
(* each 0, 1 or 2 (any other value, a missing one included).               *)
(*                                                                         *)
(* A confidence bound 1 - exp(log(rr) + s * 1.96 * sqrt(v)) is kept as the *)
(* triple [rr, s, v] it is computed from, and valued or compared by the    *)
(* monotonicity of log, exp and sqrt.                                      *)
(***************************************************************************)
TERows == {<<1, 1>>, <<1, 0>>, <<0, 1>>, <<0, 0>>, <<2, 2>>}

TEFrames == {[k \in DOMAIN f |-> [treated |-> f[k][1], disease2 |-> f[k][2]]] :
               f \in SeqsUpTo(TERows, MaxTERows)}

\* ((df[treatment_col] == t) & (df[event_col] == e)).sum()
TECount(frame, t, e) ==
  SumSeq([k \in DOMAIN frame |->
            IF frame[k].treated = t /\ frame[k].disease2 = e THEN 1 ELSE 0])

\* Lines 39-42.
TETable(frame) ==
  [a |-> TECount(frame, 1, 1), b |-> TECount(frame, 1, 0),
   c |-> TECount(frame, 0, 1), d |-> TECount(frame, 0, 0)]

\* A division of two numpy counts warns on a zero divisor; it never raises.
DivRaises(d) == FALSE

\* Line 43.
RelRisk(t) == FDiv(Div(t.a, t.a + t.b), Div(t.c, t.c + t.d))

\* Line 46 without the square root: the variance of log(rr).
VarLogRR(t) == FAdd(Div(t.b, t.a * (t.a + t.b)), Div(t.d, t.c * (t.c + t.d)))

\* The two bounds in the other order.
BoundsSwapped(rr, v) == <<[rr |-> rr, s |-> -1, v |-> v], [rr |-> rr, s |-> 1, v |-> v]>>

\* Line 47: the two bounds, in the order the code builds them.
Bounds(rr, v) == <<[rr |-> rr, s |-> 1, v |-> v], [rr |-> rr, s |-> -1, v |-> v]>>

\* log(rr): -inf at 0, +inf at inf, NaN at NaN; the sign of the infinity, 0
\* for a finite value and 2 for NaN.
LogClass(rr) ==
  IF IsNaN(rr) \/ FLt(rr, Zero) THEN 2
  ELSE IF rr = Zero THEN -1
  ELSE IF rr = PInf THEN 1
  ELSE 0

\* s * 1.96 * sqrt(v), classified the same way.
OffsetClass(s, v) ==
  IF IsNaN(v) \/ FLt(v, Zero) THEN 2
  ELSE IF v = PInf THEN s
  ELSE 0

\* log(rr) + s * 1.96 * sqrt(v), classified the same way.
ArgClass(bd) ==
  LET l == LogClass(bd.rr)
      o == OffsetClass(bd.s, bd.v)
  IN IF l = 2 \/ o = 2 \/ l * o = -1 THEN 2
     ELSE IF l # 0 THEN l
     ELSE o

\* 1 - exp(arg): NaN for NaN, 1 for -inf, -inf for +inf, else a real number.
BoundIsNaN(bd) == ArgClass(bd) = 2

\* x <= y for two bounds of the same estimate: 1 - rr * exp(.) decreases in
\* its offset s * 1.96 * sqrt(v), and the offsets compare by sign and by v.
BoundLe(x, y) ==
  /\ ~BoundIsNaN(x) /\ ~BoundIsNaN(y)
  /\ IF ArgClass(x) # 0 \/ ArgClass(y) # 0
     THEN ArgClass(x) >= ArgClass(y)
     ELSE /\ x.rr = y.rr
          /\ IF x.s = y.s THEN (IF x.s = 1 THEN FGe(x.v, y.v) ELSE FLe(x.v, y.v))
             ELSE x.s = 1 \/ (x.v = Zero /\ y.v = Zero)

\* fisherTest([[a, b], [c, d]])[1]: the two-sided p-value of the table.
FisherTest(t) == [pvalue |-> <<t.a, t.b, t.c, t.d>>]

\* Lines 39-52.
EstTECI ==
  /\ op = "estTECI" /\ pc = "start"
  /\ \E t \in {TETable(df)} :
       IF \/ DivRaises(t.a + t.b) \/ DivRaises(t.c + t.d)
          \/ DivRaises(t.a * (t.a + t.b)) \/ DivRaises(t.c * (t.c + t.d))
       THEN pc' = "raised" /\ ret' = ret
       ELSE /\ pc' = "done"
            /\ ret' = [te |-> FSub(One, RelRisk(t)),
                       ci |-> Bounds(RelRisk(t), VarLogRR(t)),
                       pvalue |-> FisherTest(t).pvalue]
  /\ UNCHANGED <<op, df, model, nFolds, obs, pred, tmp, cv, i, tpr, acc, counter,
                 results, prob, wholeProb, outcome, ids, heap, fits>>

InitTE ==
  /\ op = "estTECI"
  /\ df \in TEFrames
  /\ obs = <<>> /\ pred = <<>>
  /\ model = [self |-> FALSE, proba |-> FALSE] /\ heap = <<>>
  /\ nFolds = 0
  /\ InitLocals

NextTE == EstTECI

SpecTE == InitTE /\ [][NextTE]_vars

(***************************************************************************)
(* The whole program: one call of one of the five routines.                *)
(***************************************************************************)
Init == InitROC \/ InitCV \/ InitLOO \/ InitStats \/ InitTE

Next ==
  \/ ROCCall
  \/ CVStart \/ CVFold \/ CVSuccess \/ CVDegraded
  \/ LOOStart \/ LOOFold \/ LOOFinish
  \/ RocStats
  \/ EstTECI

Spec == Init /\ [][Next]_vars

(***************************************************************************)
(* The properties of computeCVROC and computeLOOROC.                       *)
(***************************************************************************)
\* The model.fit calls made for the folds' training partitions.
FoldFits == SelectSeq(fits, LAMBDA f : f.kind = "fold")

\* C1: when computeCVROC returns, every one of the nFolds folds has been
\* run, and success is true exactly when the completed-fold counter equals
\* nFolds, which is exactly when no fold's fit raised perfect separation: one
\* such fold forces success = false.
C1_SuccessIffAllFoldsFitted ==
  (op = "computeCVROC" /\ pc = "done") =>
     /\ Len(FoldFits) = nFolds
     /\ ret.success <=> (counter = nFolds)
     /\ ret.success <=> (\A k \in DOMAIN FoldFits : FoldFits[k].outcome = "ok")
     /\ counter = Cardinality({k \in DOMAIN FoldFits : FoldFits[k].outcome = "ok"})

\* A return after exactly one fold of at least two hit perfect separation.
C1_OneFoldSeparated ==
  /\ op = "computeCVROC" /\ pc = "done" /\ ~ret.success
  /\ nFolds >= 2 /\ counter = nFolds - 1

\* The last model.fit call made.
LastFit == fits[Len(fits)]

\* The handle the degraded result carries, the probabilities of that fit on
\* the rows of tmp, and the curve computeROC returns for them.
RefitHandle == ret.results[1]

RefitProbs == Predict(heap, RefitHandle, tmp)

RefitCurve ==
  IF LastFit.outcome = "ps"
  THEN [fpr |-> ZerosFive, tpr |-> <<Zero, One, One, One, One>>]
  ELSE [fpr |-> RocCurve(Outcome(tmp), RefitProbs).fpr,
        tpr |-> Clamp(RocCurve(Outcome(tmp), RefitProbs).tpr)]

\* curve is raw between its end points, which are 0 and 1.
Pinned(curve, raw) ==
  /\ Len(curve) = GridPoints
  /\ curve[1] = Zero /\ curve[GridPoints] = One
  /\ \A k \in 2..(GridPoints - 1) : curve[k] = raw[k]

\* C2: when computeCVROC returns after a failed fold, what it returns is the
\* result of one fit on all of the filtered dataset, made after the folds:
\* the curve is that fit's curve interpolated onto the 100-point grid (its
\* end points pinned), AUC and accuracy are that fit's, the handle list is
\* that one handle, and the probabilities are that fit's, one per row.
C2_DegradedIsTheWholeRefit ==
  (op = "computeCVROC" /\ pc = "done" /\ ~ret.success) =>
     /\ LastFit.kind = "whole" /\ LastFit.train = Index(tmp)
     /\ Cardinality({k \in DOMAIN fits : fits[k].kind = "whole"}) = 1
     /\ ret.fpr = Linspace
     /\ Pinned(ret.tpr, Interp(Linspace, RefitCurve.fpr, RefitCurve.tpr))
     /\ Len(ret.results) = 1
     /\ IF LastFit.outcome = "ps"
        THEN /\ RefitHandle = None
             /\ ret.auc = One /\ ret.acc = One
             /\ ret.prob = Series(Floats(Outcome(tmp)), Index(tmp))
        ELSE /\ RefitHandle # None
             /\ heap[RefitHandle].trained = Index(tmp)
             /\ ret.auc = Auc(RocCurve(Outcome(tmp), RefitProbs).fpr,
                              RocCurve(Outcome(tmp), RefitProbs).tpr)
             /\ ret.acc = AccuracyScore(Outcome(tmp), RefitProbs)
             /\ ret.prob = Series(RefitProbs, Index(tmp))

\* A degraded return whose refit was fitted, after a fold had been fitted.
C2_RefitAfterPartialFolds ==
  /\ op = "computeCVROC" /\ pc = "done" /\ ~ret.success
  /\ counter >= 1 /\ LastFit.outcome = "ok"

\* C3: every return of computeCVROC and of computeLOOROC carries a curve of
\* 100 points whose first point is (0, 0) and whose last point is (1, 1).
C3_CurveEndPoints ==
  (op \in {"computeCVROC", "computeLOOROC"} /\ pc = "done") =>
     /\ Len(ret.fpr) = GridPoints /\ Len(ret.tpr) = GridPoints
     /\ ret.fpr[1] = Zero /\ ret.tpr[1] = Zero
     /\ ret.fpr[GridPoints] = One /\ ret.tpr[GridPoints] = One

\* A short-circuit return of computeLOOROC whose interpolated curve is 1
\* from the first grid point on, so that its first point is set, not found.
C3_ShortCircuitPinned ==
  /\ op = "computeLOOROC" /\ pc = "done" /\ ~ret.success
  /\ ret.tpr[2] = One

\* C4: in computeLOOROC, once the fit on the whole filtered dataset has
\* raised perfect separation the call has returned success = false,
\* accuracy 1 and AUC 1, and that fit is the only one ever made: no fold is
\* run.
C4_WholeSeparationShortCircuits ==
  (op = "computeLOOROC" /\ Len(fits) >= 1 /\ fits[1].outcome = "ps") =>
     /\ fits[1].kind = "whole"
     /\ pc = "done"
     /\ ret.success = FALSE /\ ret.acc = One /\ ret.auc = One
     /\ Len(fits) = 1 /\ i = 0

\* A short-circuit return on at least two rows.
C4_ShortCircuited ==
  /\ op = "computeLOOROC" /\ pc = "done" /\ Len(tmp) >= 2
  /\ Len(fits) = 1 /\ fits[1].outcome = "ps"

(***************************************************************************)
(* The properties of estTECI.                                              *)
(***************************************************************************)
\* The cells of the 2x2 table of df, counted from the rows.
TE_a == Cardinality({k \in DOMAIN df : df[k].treated = 1 /\ df[k].disease2 = 1})

TE_b == Cardinality({k \in DOMAIN df : df[k].treated = 1 /\ df[k].disease2 = 0})

TE_c == Cardinality({k \in DOMAIN df : df[k].treated = 0 /\ df[k].disease2 = 1})

TE_d == Cardinality({k \in DOMAIN df : df[k].treated = 0 /\ df[k].disease2 = 0})

TE_ZeroMarginal == TE_a = 0 \/ TE_a + TE_b = 0 \/ TE_c = 0 \/ TE_c + TE_d = 0

\* C5: for a table with a, a+b, c and c+d all non-zero estTECI returns the
\* efficacy 1 - RR with RR = (a/(a+b)) / (c/(c+d)), and an interval whose
\* first element, built from log(RR) + 1.96 SE, is at most its second, built
\* from log(RR) - 1.96 SE, with SE^2 = b/(a(a+b)) + d/(c(c+d)).
C5_EfficacyAndOrderedInterval ==
  (op = "estTECI" /\ pc # "start" /\ ~TE_ZeroMarginal) =>
     /\ pc = "done"
     /\ ret.te = Rat(TE_c * (TE_a + TE_b) - TE_a * (TE_c + TE_d), TE_c * (TE_a + TE_b))
     /\ \A k \in 1..2 :
          /\ ret.ci[k].rr = Rat(TE_a * (TE_c + TE_d), TE_c * (TE_a + TE_b))
          /\ ret.ci[k].v = Rat(TE_b * TE_c * (TE_c + TE_d) + TE_d * TE_a * (TE_a + TE_b),
                               TE_a * (TE_a + TE_b) * TE_c * (TE_c + TE_d))
     /\ ret.ci[1].s = 1 /\ ret.ci[2].s = -1
     /\ BoundLe(ret.ci[1], ret.ci[2])
     /\ ret.ci[1].v # Zero => ~BoundLe(ret.ci[2], ret.ci[1])

\* A return for a table with no empty cell.
C5_FullTable ==
  /\ op = "estTECI" /\ pc = "done"
  /\ TE_a >= 1 /\ TE_b >= 1 /\ TE_c >= 1 /\ TE_d >= 1

\* C6: estTECI raises, returning no estimate, whenever a, a+b, c or c+d of
\* its table is zero.
C6_ZeroMarginalRaises ==
  (op = "estTECI" /\ pc # "start" /\ TE_ZeroMarginal) => pc = "raised"

(***************************************************************************)
(* The properties of rocStats.                                             *)
(***************************************************************************)
\* The cells of the 2x2 table of obs and pred, counted from the vectors.
RS_Cell(o, p) == Cardinality({k \in DOMAIN obs : obs[k] = o /\ pred[k] = p})

RS_Unit(x) == x[2] > 0 /\ 0 <= x[1] /\ x[1] <= x[2]

\* C7: for equal-length binary vectors whose table has a, b, c, d > 0,
\* rocStats returns sensitivity a/(a+b), specificity d/(c+d), PPV a/(a+c),
\* NPV d/(b+d) and accuracy (a+d)/n with n = a+b+c+d, each in [0, 1]; all
\* five are 1/2 for obs = [1,1,0,0], pred = [1,0,1,0].
C7_RocStatsFormulas ==
  (/\ op = "rocStats" /\ pc # "start" /\ Len(obs) = Len(pred)
   /\ RS_Cell(1, 1) > 0 /\ RS_Cell(1, 0) > 0 /\ RS_Cell(0, 1) > 0 /\ RS_Cell(0, 0) > 0) =>
     /\ pc = "done"
     /\ RS_Cell(1, 1) + RS_Cell(1, 0) + RS_Cell(0, 1) + RS_Cell(0, 0) = Len(obs)
     /\ ret.sens = Rat(RS_Cell(1, 1), RS_Cell(1, 1) + RS_Cell(1, 0))
     /\ ret.spec = Rat(RS_Cell(0, 0), RS_Cell(0, 1) + RS_Cell(0, 0))
     /\ ret.ppv = Rat(RS_Cell(1, 1), RS_Cell(1, 1) + RS_Cell(0, 1))
     /\ ret.npv = Rat(RS_Cell(0, 0), RS_Cell(1, 0) + RS_Cell(0, 0))
     /\ ret.acc = Rat(RS_Cell(1, 1) + RS_Cell(0, 0), Len(obs))
     /\ \A x \in {ret.sens, ret.spec, ret.ppv, ret.npv, ret.acc} : RS_Unit(x)
     /\ (obs = <<1, 1, 0, 0>> /\ pred = <<1, 0, 1, 0>>) =>
           \A x \in {ret.sens, ret.spec, ret.ppv, ret.npv, ret.acc} : x = <<1, 2>>

\* The return for obs = [1,1,0,0], pred = [1,0,1,0].
C7_Example ==
  /\ op = "rocStats" /\ pc = "done"
  /\ obs = <<1, 1, 0, 0>> /\ pred = <<1, 0, 1, 0>>

(***************************************************************************)
(* The properties of computeROC.                                           *)
(***************************************************************************)
\* C8: when its fit raised perfect separation, computeROC returns accuracy
\* 1, AUC 1, no model handle and a curve of 5 points whose first point is
\* (0, 0) and whose last point is (1, 1).
C8_SeparationCurve ==
  (op = "computeROC" /\ pc = "done" /\ fits[1].outcome = "ps") =>
     /\ ret.acc = One /\ ret.auc = One /\ ret.results = None
     /\ Len(ret.fpr) = 5 /\ Len(ret.tpr) = 5
     /\ ret.fpr[1] = Zero /\ ret.tpr[1] = Zero
     /\ ret.fpr[5] = One /\ ret.tpr[5] = One

\* C9: when its fit raised perfect separation, computeROC returns, whatever
\* rows of df were dropped, with one probability per row of the filtered
\* dataset, under that row's identifier and equal to that row's outcome.
C9_SeparationRecovered ==
  (op = "computeROC" /\ pc # "start" /\ fits[1].outcome = "ps") =>
     /\ pc = "done"
     /\ ret.prob = [k \in DOMAIN tmp |-> [id |-> tmp[k].id, v |-> FInt(tmp[k].y)]]

(***************************************************************************)
(* One probability per row.                                                *)
(***************************************************************************)
\* The folds whose test partition holds position r of tmp.
TestFoldsOf(r) == {j \in DOMAIN cv : \E q \in DOMAIN cv[j].test : cv[j].test[q] = r}

\* C10: every return of computeCVROC and computeLOOROC carries one
\* probability per row of the filtered dataset, each identifier once; the
\* assertions on the length of the probability series hold whenever they
\* are reached; and in k-fold every row is in the test partition of exactly
\* one fold.
C10_OneProbabilityPerRow ==
  /\ (op \in {"computeCVROC", "computeLOOROC"} /\ pc = "done") =>
        /\ Len(ret.prob) = Len(tmp)
        /\ \A r \in DOMAIN tmp :
              Cardinality({k \in DOMAIN ret.prob : ret.prob[k].id = tmp[r].id}) = 1
  /\ (op = "computeCVROC" /\ pc = "fold") =>
        \A r \in DOMAIN tmp : Cardinality(TestFoldsOf(r)) = 1
  /\ (op = "computeCVROC" /\ pc = "fold" /\ i = nFolds /\ counter = nFolds) =>
        Len(GroupMean(Concat(prob))) = Len(tmp)
  /\ (op = "computeLOOROC" /\ pc = "fold" /\ i = nFolds) =>
        Len(Series(prob, ids)) = Len(tmp)

\* A completed 2-fold run on three rows left of four: the folds differ in
\* size and the identifiers are not the positions.
C10_UnevenFolds ==
  /\ op = "computeCVROC" /\ pc = "done" /\ ret.success
  /\ Len(df) = 4 /\ Len(tmp) = 3 /\ nFolds = 2

(***************************************************************************)
(* The classifier's interface.                                             *)
(***************************************************************************)
\* What accepting the classifier means at the three places its
\* probabilities are taken: computeROC's result carries the predictions of
\* the fitted model; in computeLOOROC the fold loop is entered once the
\* whole-dataset fit has returned; in computeCVROC the loop goes on once the
\* first fold's model has been counted and its held-out rows scored.
Accepted ==
  /\ (op = "computeROC" /\ pc # "start" /\ fits[1].outcome = "ok") =>
        (pc = "done" =>
           /\ ret.results # None
           /\ ret.prob = Series(Predict(heap, ret.results, tmp), Index(tmp)))
  /\ (op = "computeLOOROC" /\ Len(fits) = 1 /\ fits[1].outcome = "ok") => pc = "fold"
  /\ (op = "computeCVROC" /\ Len(fits) = 1 /\ counter = 1) => pc = "fold"

\* C11: with a classifier whose fitted model has predict and no
\* predict_proba, computeROC, computeCVROC and computeLOOROC take the raw
\* predictions as probabilities, on the whole-dataset fit and on a fold's
\* held-out rows, and go on to their result.
C11_PredictOnlyAccepted == ~model.proba => Accepted

(***************************************************************************)
(* The returned model handles.                                             *)
(***************************************************************************)
\* The identifiers of the rows of fold k's training partition.
TrainIds(k) == Index(ILoc(tmp, cv[k].train))

\* The run returned success with a model handle for every fold.
FullySuccessful ==
  /\ op \in {"computeCVROC", "computeLOOROC"} /\ pc = "done" /\ ret.success
  /\ \A k \in DOMAIN ret.results : ret.results[k] # None

LOOEntered == op = "computeLOOROC" /\ wholeProb # <<>>

\* The rows of tmp without the one at position k.
AllBut(k) == SelectSeq(tmp, LAMBDA r : r.id # tmp[k].id)

\* The probability a model fitted on the rows train gives row r.
ProbFrom(train, r) ==
  IF \E q \in DOMAIN train : train[q].x = r.x
  THEN <<Cardinality({q \in DOMAIN train : train[q].x = r.x /\ train[q].y = 1}),
         Cardinality({q \in DOMAIN train : train[q].x = r.x})>>
  ELSE <<1, 2>>

SameValue(p, q) == p[1] * q[2] = q[1] * p[2]

\* C13: in computeLOOROC, once the whole-dataset probabilities are there,
\* the folds are run in row order, fold k fitting all rows but row k; every
\* fold run has put one probability and one handle at its position: its own
\* model and that model's prediction for row k when its fit returned, or no
\* handle and the whole-dataset probability of row k when its fit raised
\* perfect separation; and a return comes after all n folds with
\* success = true and those n probabilities and handles, however many folds
\* borrowed.
C13_EveryFoldContributes ==
  LOOEntered =>
     /\ fits[1].kind = "whole" /\ fits[1].outcome = "ok"
     /\ \A k \in DOMAIN tmp : SameValue(wholeProb[k], ProbFrom(tmp, tmp[k]))
     /\ i <= nFolds /\ nFolds = Len(tmp)
     /\ Len(fits) = 1 + Len(ids)
     /\ \A k \in DOMAIN ids :
          /\ ids[k] = tmp[k].id
          /\ fits[k + 1].kind = "fold" /\ fits[k + 1].train = Index(AllBut(k))
     /\ pc # "raised" => (Len(ids) = i /\ Len(results) = i)
     /\ \A k \in 1..i :
          /\ fits[k + 1].outcome \in {"ok", "ps"}
          /\ fits[k + 1].outcome = "ok" =>
                /\ results[k] # None
                /\ SameValue(prob[k], ProbFrom(AllBut(k), tmp[k]))
          /\ fits[k + 1].outcome = "ps" =>
                /\ results[k] = None
                /\ prob[k] = wholeProb[k]
     /\ pc = "done" =>
          /\ i = nFolds
          /\ ret.success = TRUE
          /\ ret.results = results
          /\ ret.prob = [k \in DOMAIN tmp |-> [id |-> tmp[k].id, v |-> prob[k]]]

\* A return after one fold borrowed and another was fitted.
C13_SomeFoldsBorrowed ==
  /\ LOOEntered /\ pc = "done"
  /\ \E k \in DOMAIN results : results[k] = None /\ prob[k] = wholeProb[k]
  /\ \E k \in DOMAIN results : results[k] # None /\ prob[k] # wholeProb[k]

====
